---- MODULE Spec2Model ----
(***************************************************************************)
(* A model of src/main.py: the bounded in-memory queue (InMemoryQueue),    *)
(* the SQLite-backed queue (PersistentQueue), the rate gate (is_time_up),  *)
(* the weighted round robin between the two queues and the dispatch loop   *)
(* of main().                                                              *)
(*                                                                         *)
(* Time is counted in microseconds.  The wall clock (datetime.now(),       *)
(* time.time()) is an input: each reading is any value not below the       *)
(* previous one.  An event is identified by the number of the loop         *)
(* iteration that generated it (get_random_string, main.py:175).           *)
(***************************************************************************)
EXTENDS Integers, Sequences, FiniteSets

\* ------------------------------------------------------------------ bounds
\* Capacity of the in-memory queue in the model (BUFFER_SIZE, main.py:11, is 5000).
BUFFER_SIZE == 2
\* Number of events the producer generates before the model stops admitting.
MaxEvents == 5
\* Largest wall-clock reading, in microseconds, of the dispatch-loop model.
MaxClock == 4

\* ------------------------------------------------------- program constants
MAX_EPS == 500
IN_MEMORY_Q_WEIGHT == 1
PERSISTENT_Q_WEIGHT == 1

VARIABLES
    pc,        \* position of main(): "admit", "gate", "select", "send", "recycle", "crashed"
    q,         \* InMemoryQueue.__queue
    pq,        \* rows of table logs, in rowid (insertion) order
    clock,     \* last wall-clock reading, microseconds
    lastSent,  \* main's lastSent
    weights,   \* the dataset handed to roundrobin.weighted: <<weight of q, weight of pq>>
    rr,        \* state of the closure roundrobin.weighted returns
    log,       \* main's local log (0: none yet)
    buffer,    \* main's local buffer: "q", "pq" or "none"
    next,      \* main's local next (0: none yet)
    ret,       \* value returned by the last queue call (0: nothing returned)
    timeUp,    \* value returned by the last is_time_up
    err,       \* exception raised by the last call ("none": no exception)
    lastOp,    \* name of the last call made
    sendOk,    \* result of the last try_send: "none", "True" or "False"
    nextId,    \* number of the next event get_random_string produces
    accepted,  \* events q.push appended
    sent,      \* events for which try_send returned True
    ticks      \* the selections made since the round robin was built, oldest first:
               \* [buffer: the source chosen, drew: whether get_weighted was called]

vars == <<pc, q, pq, clock, lastSent, weights, rr, log, buffer, next, ret, timeUp,
          err, lastOp, sendOk, nextId, accepted, sent, ticks>>

Events == 1..MaxEvents

Range(s) == {s[i] : i \in DOMAIN s}

\* ------------------------------------------------------------ InMemoryQueue
\* Every method returns [queue, ret, err]: the list afterwards, the value
\* returned and the exception raised.

InMemoryQueue_init == <<>>

\* InMemoryQueue.push with the capacity test off by one (<= for <)
InMemoryQueue_push_off_by_one(queue, item) ==
    IF Len(queue) <= BUFFER_SIZE
        THEN [queue |-> Append(queue, item), ret |-> 0, err |-> "none"]
        ELSE [queue |-> queue, ret |-> 0, err |-> "none"]

\* InMemoryQueue.push with the capacity test inverted (> for <)
InMemoryQueue_push_inverted(queue, item) ==
    IF Len(queue) > BUFFER_SIZE
        THEN [queue |-> Append(queue, item), ret |-> 0, err |-> "none"]
        ELSE [queue |-> queue, ret |-> 0, err |-> "none"]

InMemoryQueue_push(queue, item) ==
    IF Len(queue) < BUFFER_SIZE
        THEN [queue |-> Append(queue, item), ret |-> 0, err |-> "none"]
        ELSE [queue |-> queue, ret |-> 0, err |-> "none"]

\* self.__queue[0]
InMemoryQueue_peek(queue) ==
    IF queue = <<>>
        THEN [queue |-> queue, ret |-> 0, err |-> "IndexError"]
        ELSE [queue |-> queue, ret |-> queue[1], err |-> "none"]

\* self.__queue.pop(): list.pop() removes and returns the LAST item
InMemoryQueue_pop(queue) ==
    IF queue = <<>>
        THEN [queue |-> queue, ret |-> 0, err |-> "IndexError"]
        ELSE [queue |-> SubSeq(queue, 1, Len(queue) - 1),
              ret |-> queue[Len(queue)], err |-> "none"]

InMemoryQueue_size(queue) == Len(queue)

\* The drop count an InMemoryQueue reports.  The class has the attributes
\* __queue and __maxSize only (main.py:42-47) and push's else branch is
\* absent (main.py:49-51): no count of dropped items is kept anywhere, so
\* whatever is read from the object for it does not move.
InMemoryQueue_dropped(queue) == 0

\* ---------------------------------------------------------- PersistentQueue
\* The table logs(timestamp TEXT PRIMARY KEY, log TEXT) is the sequence of
\* its rows in rowid order: a row inserted gets the largest rowid, and
\* "SELECT timestamp, log FROM logs LIMIT 1" scans the table in rowid order.
\* Every method returns [rows, ret, err].

\* id = str(time.time() * 1000): the key is the clock reading t; str is
\* injective, so two keys are equal exactly when the readings are.
\* INSERT of a key already present violates PRIMARY KEY: sqlite3.IntegrityError.
PersistentQueue_push(rows, item, t) ==
    IF \E i \in DOMAIN rows : rows[i].timestamp = t
        THEN [rows |-> rows, ret |-> 0, err |-> "IntegrityError"]
        ELSE [rows |-> Append(rows, [timestamp |-> t, log |-> item]),
              ret |-> 0, err |-> "none"]

\* _, log = fetchone(): fetchone() is None on an empty table, and unpacking
\* None raises TypeError.
PersistentQueue_peek(rows) ==
    IF rows = <<>>
        THEN [rows |-> rows, ret |-> 0, err |-> "TypeError"]
        ELSE [rows |-> rows, ret |-> rows[1].log, err |-> "none"]

\* PersistentQueue.pop selecting the newest row instead of the oldest
PersistentQueue_pop_newest(rows) ==
    IF rows = <<>>
        THEN [rows |-> rows, ret |-> 0, err |-> "TypeError"]
        ELSE [rows |-> SelectSeq(rows, LAMBDA r : r.timestamp # rows[Len(rows)].timestamp),
              ret |-> rows[Len(rows)].log, err |-> "none"]

\* DELETE FROM logs WHERE timestamp = (the first row's timestamp)
PersistentQueue_pop(rows) ==
    IF rows = <<>>
        THEN [rows |-> rows, ret |-> 0, err |-> "TypeError"]
        ELSE [rows |-> SelectSeq(rows, LAMBDA r : r.timestamp # rows[1].timestamp),
              ret |-> rows[1].log, err |-> "none"]

PersistentQueue_size(rows) == Len(rows)

\* int(self.__cur.fetchone()): fetchone() returns the row as a tuple,
\* (page_count,), and int() of a tuple raises TypeError.
PersistentQueue_get_page_count(rows) ==
    [ret |-> 0, err |-> "TypeError"]

\* The first evaluation of the size loop's condition (main.py:111) calls
\* __get_page_count, whose exception leaves recycle before any row is
\* touched: neither loop of recycle is ever reached.
PersistentQueue_recycle(rows, max_minutes, max_size_mb, now) ==
    LET pages == PersistentQueue_get_page_count(rows) IN
    [rows |-> rows, ret |-> 0, err |-> pages.err]

\* -------------------------------------------------------------- is_time_up
\* timedelta.microseconds: the sub-second component of the normalised
\* difference, 0 <= microseconds < 1000000.
timedelta_microseconds(diff) == diff % 1000000

\* delayMs = 1000 / MAX_EPS (exact for MAX_EPS = 500: 2.0)
delayMs == 1000 \div MAX_EPS

is_time_up(expectedDelay, last, now) ==
    LET diff == now - last IN
    timedelta_microseconds(diff) * 1000 >= expectedDelay

\* ------------------------------------------------------ roundrobin.weighted
Max(a, b) == IF a >= b THEN a ELSE b

RECURSIVE gcd(_, _)
gcd(a, b) == IF b = 0 THEN a ELSE gcd(b, a % b)

\* the closure's variables when roundrobin.weighted returns it
weighted(w) == [current |-> 0, current_weight |-> 0]

\* get_next: advance current round the dataset, lowering current_weight by
\* the gcd of the weights at each wrap (back to the largest weight once it
\* reaches 0), until a source whose weight is at least current_weight is
\* met.  Sources are numbered 1 (q) and 2 (pq); current = 0 stands for the
\* closure's initial -1.  Returns [state, ret].
RECURSIVE get_weighted(_, _)
get_weighted(w, st) ==
    LET cur  == (st.current % Len(w)) + 1
        step == gcd(w[1], w[2])
        top  == Max(w[1], w[2])
        cw0  == IF cur = 1 THEN st.current_weight - step ELSE st.current_weight
        cw   == IF cur = 1 /\ cw0 <= 0 THEN top ELSE cw0
        st1  == [current |-> cur, current_weight |-> cw]
    IN  IF cur = 1 /\ cw0 <= 0 /\ top = 0
            THEN [state |-> st1, ret |-> "none"]
        ELSE IF w[cur] >= cw
            THEN [state |-> st1, ret |-> IF cur = 1 THEN "q" ELSE "pq"]
        ELSE get_weighted(w, st1)

\* ------------------------------------------------------------------- main
\* The selection calling get_weighted() before it looks at pq.size()
select_buffer_draw_first(rows, w, st) ==
    LET g == get_weighted(w, st) IN
    IF PersistentQueue_size(rows) = 0
        THEN [buffer |-> "q", rr |-> g.state, drew |-> FALSE]
        ELSE [buffer |-> g.ret, rr |-> g.state, drew |-> TRUE]

\* The selection with its test inverted (pq.size() != 0 for == 0)
select_buffer_inverted(rows, w, st) ==
    IF PersistentQueue_size(rows) # 0
        THEN [buffer |-> "q", rr |-> st, drew |-> FALSE]
        ELSE LET g == get_weighted(w, st) IN
             [buffer |-> g.ret, rr |-> g.state, drew |-> TRUE]

\* main.py:186-190
select_buffer(rows, w, st) ==
    IF PersistentQueue_size(rows) = 0
        THEN [buffer |-> "q", rr |-> st, drew |-> FALSE]
        ELSE LET g == get_weighted(w, st) IN
             [buffer |-> g.ret, rr |-> g.state, drew |-> TRUE]

\* the branch taken without the test: the dispatch block runs on every cycle
after_gate_always(up) == "select"

\* main.py:183: the dispatch block runs only if is_time_up returned True
after_gate(up) == IF up THEN "select" ELSE "admit"

\* the failure branch pushing the cycle's new log instead of next
spilled_log(nxt, lg) == lg

\* main.py:202: pq.push(next)
spilled(nxt, lg) == nxt

Init ==
    /\ pc = "admit"
    /\ q = InMemoryQueue_init
    /\ pq = <<>>
    /\ clock = 0
    /\ lastSent = 0
    /\ weights = <<IN_MEMORY_Q_WEIGHT, PERSISTENT_Q_WEIGHT>>
    /\ rr = weighted(weights)
    /\ log = 0
    /\ buffer = "none"
    /\ next = 0
    /\ ret = 0
    /\ timeUp = FALSE
    /\ err = "none"
    /\ lastOp = "none"
    /\ sendOk = "none"
    /\ nextId = 1
    /\ accepted = {}
    /\ sent = {}
    /\ ticks = <<>>

\* main.py:175-180: a new log on every cycle, pushed to q
Admit ==
    /\ pc = "admit"
    /\ nextId <= MaxEvents
    /\ LET r == InMemoryQueue_push(q, nextId) IN
        /\ q' = r.queue
        /\ accepted' = IF r.queue # q THEN accepted \cup {nextId} ELSE accepted
    /\ log' = nextId
    /\ nextId' = nextId + 1
    /\ lastOp' = "InMemoryQueue.push"
    /\ pc' = "gate"
    /\ UNCHANGED <<timeUp, pq, clock, lastSent, weights, rr, buffer, next, ret, err,
                   sendOk, sent, ticks>>

\* main.py:183: if (is_time_up(delayMs, lastSent))
Gate ==
    /\ pc = "gate"
    /\ \E t \in clock..MaxClock :
        /\ clock' = t
        /\ timeUp' = is_time_up(delayMs, lastSent, t)
        /\ pc' = after_gate(is_time_up(delayMs, lastSent, t))
    /\ lastOp' = "is_time_up"
    /\ UNCHANGED <<q, pq, lastSent, weights, rr, log, buffer, next, ret, err,
                   sendOk, nextId, accepted, sent, ticks>>

\* main.py:184-192: choose the buffer and peek it
Select ==
    /\ pc = "select"
    /\ LET s == select_buffer(pq, weights, rr)
           p == IF s.buffer = "q" THEN InMemoryQueue_peek(q)
                                  ELSE PersistentQueue_peek(pq)
       IN  /\ buffer' = s.buffer
           /\ rr' = s.rr
           /\ ticks' = Append(ticks, [buffer |-> s.buffer, drew |-> s.drew])
           /\ next' = p.ret
           /\ err' = p.err
           /\ pc' = IF p.err = "none" THEN "send" ELSE "crashed"
    /\ lastOp' = "peek"
    /\ UNCHANGED <<timeUp, q, pq, clock, lastSent, weights, log, ret, sendOk, nextId,
                   accepted, sent>>

\* main.py:194-197: try_send returned True, pop the buffer
SendOk ==
    /\ pc = "send"
    /\ sendOk' = "True"
    /\ sent' = sent \cup {next}
    /\ LET r == IF buffer = "q" THEN InMemoryQueue_pop(q)
                                ELSE [queue |-> q, ret |-> 0, err |-> "none"]
           p == IF buffer = "pq" THEN PersistentQueue_pop(pq)
                                 ELSE [rows |-> pq, ret |-> 0, err |-> "none"]
       IN  /\ q' = r.queue
           /\ pq' = p.rows
           /\ ret' = IF buffer = "q" THEN r.ret ELSE p.ret
           /\ err' = IF buffer = "q" THEN r.err ELSE p.err
           /\ pc' = IF r.err = "none" /\ p.err = "none" THEN "recycle" ELSE "crashed"
    /\ lastOp' = "pop"
    /\ UNCHANGED <<timeUp, clock, lastSent, weights, rr, log, buffer, next, nextId,
                   accepted, ticks>>

\* main.py:199-202: try_send returned False, push next to pq
SendFail ==
    /\ pc = "send"
    /\ sendOk' = "False"
    /\ \E t \in clock..MaxClock :
        LET p == PersistentQueue_push(pq, spilled(next, log), t) IN
        /\ clock' = t
        /\ pq' = p.rows
        /\ err' = p.err
        /\ pc' = IF p.err = "none" THEN "recycle" ELSE "crashed"
    /\ ret' = 0
    /\ lastOp' = "PersistentQueue.push"
    /\ UNCHANGED <<timeUp, q, lastSent, weights, rr, log, buffer, next, nextId,
                   accepted, sent, ticks>>

\* main.py:205: pq.recycle(RETENTION_MINUTES, MAX_DB_SIZE_MB)
Recycle ==
    /\ pc = "recycle"
    /\ LET r == PersistentQueue_recycle(pq, 2 * 24 * 60, 100, clock) IN
        /\ pq' = r.rows
        /\ err' = r.err
        /\ pc' = IF r.err = "none" THEN "admit" ELSE "crashed"
    /\ lastOp' = "PersistentQueue.recycle"
    /\ UNCHANGED <<timeUp, q, clock, lastSent, weights, rr, log, buffer, next, ret,
                   sendOk, nextId, accepted, sent, ticks>>

\* main.py:210-224, 160-168: the exception ends the process; run again, main
\* builds an empty q, opens the same queue.db (CREATE TABLE IF NOT EXISTS),
\* reads lastSent and builds a new round robin.
Restart ==
    /\ pc = "crashed"
    /\ \E t \in clock..MaxClock :
        /\ clock' = t
        /\ lastSent' = t
    /\ q' = InMemoryQueue_init
    /\ rr' = weighted(weights)
    /\ ticks' = <<>>
    /\ log' = 0
    /\ buffer' = "none"
    /\ next' = 0
    /\ ret' = 0
    /\ timeUp' = FALSE
    /\ err' = "none"
    /\ sendOk' = "none"
    /\ lastOp' = "main"
    /\ pc' = "admit"
    /\ UNCHANGED <<pq, weights, nextId, accepted, sent>>

\* one execution of main()
NextRun == Admit \/ Gate \/ Select \/ SendOk \/ SendFail \/ Recycle

Next == NextRun \/ Restart

Spec == Init /\ [][Next]_vars

\* One execution of main() with a scheduler that keeps taking steps, a gate
\* that opens infinitely often when it is asked infinitely often and a
\* transport that succeeds infinitely often when it is tried infinitely often.
GateOpen == Gate /\ pc' = "select"

FairSpec ==
    /\ Init
    /\ [][NextRun]_vars
    /\ WF_vars(NextRun)
    /\ SF_vars(GateOpen)
    /\ SF_vars(SendOk)

\* main() run and re-run with any configured weights up to MaxWeight
\* (IN_MEMORY_Q_WEIGHT, PERSISTENT_Q_WEIGHT are main.py's settings).
MaxWeight == 2

InitAnyWeights ==
    /\ pc = "admit"
    /\ q = InMemoryQueue_init
    /\ pq = <<>>
    /\ clock = 0
    /\ lastSent = 0
    /\ weights \in (1..MaxWeight) \X (1..MaxWeight)
    /\ rr = weighted(weights)
    /\ log = 0
    /\ buffer = "none"
    /\ next = 0
    /\ ret = 0
    /\ timeUp = FALSE
    /\ err = "none"
    /\ lastOp = "none"
    /\ sendOk = "none"
    /\ nextId = 1
    /\ accepted = {}
    /\ sent = {}
    /\ ticks = <<>>

SpecAnyWeights == InitAnyWeights /\ [][Next]_vars

\* ------------------------------------------- InMemoryQueue, called directly
\* Any sequence of push, peek and pop on one InMemoryQueue(BUFFER_SIZE).  A
\* call that raises leaves the list as it was.
QPush ==
    /\ \E item \in Events :
        LET r == InMemoryQueue_push(q, item) IN
        /\ q' = r.queue
        /\ ret' = r.ret
        /\ err' = r.err
        /\ log' = item
    /\ lastOp' = "InMemoryQueue.push"
    /\ UNCHANGED <<timeUp, pc, pq, clock, lastSent, weights, rr, buffer, next, sendOk,
                   nextId, accepted, sent, ticks>>

QPeek ==
    /\ LET r == InMemoryQueue_peek(q) IN
        /\ q' = r.queue
        /\ ret' = r.ret
        /\ err' = r.err
    /\ lastOp' = "InMemoryQueue.peek"
    /\ UNCHANGED <<timeUp, pc, pq, clock, lastSent, weights, rr, log, buffer, next,
                   sendOk, nextId, accepted, sent, ticks>>

QPop ==
    /\ LET r == InMemoryQueue_pop(q) IN
        /\ q' = r.queue
        /\ ret' = r.ret
        /\ err' = r.err
    /\ lastOp' = "InMemoryQueue.pop"
    /\ UNCHANGED <<timeUp, pc, pq, clock, lastSent, weights, rr, log, buffer, next,
                   sendOk, nextId, accepted, sent, ticks>>

NextQ == QPush \/ QPeek \/ QPop

SpecQ == Init /\ [][NextQ]_vars

\* ----------------------------------------- PersistentQueue, called directly
\* Any sequence of push, peek, pop, size and recycle on one PersistentQueue over an
\* empty queue.db, with items 1..MaxItems.  A call that raises leaves the
\* table as it was.
MaxItems == 2

PQPush ==
    /\ \E item \in 1..MaxItems, t \in clock..MaxClock :
        LET r == PersistentQueue_push(pq, item, t) IN
        /\ clock' = t
        /\ pq' = r.rows
        /\ ret' = r.ret
        /\ err' = r.err
        /\ log' = item
    /\ lastOp' = "PersistentQueue.push"
    /\ UNCHANGED <<timeUp, pc, q, lastSent, weights, rr, buffer, next, sendOk, nextId,
                   accepted, sent, ticks>>

PQPeek ==
    /\ LET r == PersistentQueue_peek(pq) IN
        /\ pq' = r.rows
        /\ ret' = r.ret
        /\ err' = r.err
    /\ lastOp' = "PersistentQueue.peek"
    /\ UNCHANGED <<timeUp, pc, q, clock, lastSent, weights, rr, log, buffer, next,
                   sendOk, nextId, accepted, sent, ticks>>

PQPop ==
    /\ LET r == PersistentQueue_pop(pq) IN
        /\ pq' = r.rows
        /\ ret' = r.ret
        /\ err' = r.err
    /\ lastOp' = "PersistentQueue.pop"
    /\ UNCHANGED <<timeUp, pc, q, clock, lastSent, weights, rr, log, buffer, next,
                   sendOk, nextId, accepted, sent, ticks>>

PQSize ==
    /\ ret' = PersistentQueue_size(pq)
    /\ err' = "none"
    /\ lastOp' = "PersistentQueue.size"
    /\ UNCHANGED <<timeUp, pc, q, pq, clock, lastSent, weights, rr, log, buffer, next,
                   sendOk, nextId, accepted, sent, ticks>>

\* recycle(max_minutes, max_size_mb) called with a size cap worth
\* RecycleMaxRows rows and an age cap of RecycleMaxAge microseconds, at any
\* later clock reading.
RecycleMaxRows == 1
RecycleMaxAge == 2

PQRecycle ==
    /\ \E t \in clock..MaxClock :
        LET r == PersistentQueue_recycle(pq, RecycleMaxAge, RecycleMaxRows, t) IN
        /\ clock' = t
        /\ pq' = r.rows
        /\ ret' = r.ret
        /\ err' = r.err
    /\ lastOp' = "PersistentQueue.recycle"
    /\ UNCHANGED <<timeUp, pc, q, lastSent, weights, rr, log, buffer, next,
                   sendOk, nextId, accepted, sent, ticks>>

NextPQ == PQPush \/ PQPeek \/ PQPop \/ PQSize \/ PQRecycle

SpecPQ == Init /\ [][NextPQ]_vars

\* ------------------------------------------- the selection step, on its own
\* main.py:186-190 applied tick after tick with one round robin, for any
\* weights up to MaxWeight, while pq fills and drains between ticks; q holds
\* an event, as it does after main's q.push.
MaxTicks == 6

InitWRR ==
    /\ pc = "select"
    /\ q = InMemoryQueue_push(InMemoryQueue_init, 1).queue
    /\ pq = <<>>
    /\ clock = 0
    /\ lastSent = 0
    /\ weights \in (1..MaxWeight) \X (1..MaxWeight)
    /\ rr = weighted(weights)
    /\ log = 0
    /\ buffer = "none"
    /\ next = 0
    /\ ret = 0
    /\ timeUp = FALSE
    /\ err = "none"
    /\ lastOp = "none"
    /\ sendOk = "none"
    /\ nextId = 2
    /\ accepted = {1}
    /\ sent = {}
    /\ ticks = <<>>

WrrSelect ==
    /\ Len(ticks) < MaxTicks
    /\ LET s == select_buffer(pq, weights, rr) IN
        /\ buffer' = s.buffer
        /\ rr' = s.rr
        /\ ticks' = Append(ticks, [buffer |-> s.buffer, drew |-> s.drew])
    /\ lastOp' = "select"
    /\ UNCHANGED <<timeUp, pc, q, pq, clock, lastSent, weights, log, next, ret, err,
                   sendOk, nextId, accepted, sent>>

WrrSpill ==
    /\ pq = <<>>
    /\ pq' = PersistentQueue_push(pq, 1, clock).rows
    /\ lastOp' = "PersistentQueue.push"
    /\ UNCHANGED <<timeUp, pc, q, clock, lastSent, weights, rr, log, buffer, next, ret, err,
                   sendOk, nextId, accepted, sent, ticks>>

WrrDrain ==
    /\ pq # <<>>
    /\ pq' = PersistentQueue_pop(pq).rows
    /\ lastOp' = "PersistentQueue.pop"
    /\ UNCHANGED <<timeUp, pc, q, clock, lastSent, weights, rr, log, buffer, next, ret,
                   err, sendOk, nextId, accepted, sent, ticks>>

NextWRR == WrrSelect \/ WrrSpill \/ WrrDrain

SpecWRR == InitWRR /\ [][NextWRR]_vars

\* ------------------------------------------------- is_time_up, on its own
\* is_time_up(delayMs, lastSent) asked again and again as the clock moves on,
\* for elapsed times round 0, the delay, one second and one second plus the
\* delay, from several values of lastSent.
GateBand == 2

GateLastSents == {0, 1, 500000, 998000, 999999, 1000000}

GateOffsets ==
    {b + d : b \in {0, 2000, 1000000, 1002000}, d \in 0..GateBand}
    \cup {b - d : b \in {2000, 1000000, 1002000}, d \in 1..GateBand}

InitGate ==
    /\ pc = "gate"
    /\ q = InMemoryQueue_init
    /\ pq = <<>>
    /\ lastSent \in GateLastSents
    /\ clock = lastSent
    /\ weights = <<IN_MEMORY_Q_WEIGHT, PERSISTENT_Q_WEIGHT>>
    /\ rr = weighted(weights)
    /\ log = 0
    /\ buffer = "none"
    /\ next = 0
    /\ ret = 0
    /\ timeUp = FALSE
    /\ err = "none"
    /\ lastOp = "none"
    /\ sendOk = "none"
    /\ nextId = 1
    /\ accepted = {}
    /\ sent = {}
    /\ ticks = <<>>

GateCheck ==
    /\ \E d \in GateOffsets :
        /\ lastSent + d >= clock
        /\ clock' = lastSent + d
        /\ timeUp' = is_time_up(delayMs, lastSent, lastSent + d)
    /\ err' = "none"
    /\ lastOp' = "is_time_up"
    /\ UNCHANGED <<pc, q, pq, lastSent, weights, rr, log, buffer, next, ret, sendOk,
                   nextId, accepted, sent, ticks>>

NextGate == GateCheck

SpecGate == InitGate /\ [][NextGate]_vars

\* ================================================================ claims
Payloads(rows) == {rows[i].log : i \in DOMAIN rows}

Held(e, queue, rows) == e \in Range(queue) \/ e \in Payloads(rows)

\* C1: whatever sequence of push, peek and pop is applied to the in-memory
\* queue, it never holds more than BUFFER_SIZE events.
C1_FastBufferBounded == InMemoryQueue_size(q) <= BUFFER_SIZE

\* a push arrived at a full queue and was not appended
C1_Witness ==
    /\ lastOp = "InMemoryQueue.push"
    /\ InMemoryQueue_size(q) = BUFFER_SIZE
    /\ q[Len(q)] # log

\* C2: the in-memory queue is FIFO: a pop of a non-empty queue returns the
\* head, the element peek returns, and removes exactly that element, so that
\* pops after pushes e1..en return e1..en in order.
C2_PopReturnsHead ==
    [][(lastOp' = "InMemoryQueue.pop" /\ q # <<>>)
         => (ret' = InMemoryQueue_peek(q).ret /\ q' = Tail(q))]_vars

\* C3: when try_send fails for an event taken from the in-memory queue, then
\* once the outcome has been handled the event is in the persistent queue and
\* no longer in the in-memory queue.
C3_FailedSendMoves ==
    (pc = "recycle" /\ sendOk = "False" /\ buffer = "q")
        => (next \in Payloads(pq) /\ next \notin Range(q))

\* C4: within one run of the dispatch loop an accepted event leaves the
\* buffers (held by neither afterwards) only in the step that pops it after
\* its own successful send, or in a recycle step.
C4_RemovedOnlyWhenSent ==
    [][\A e \in Events :
         (e \in accepted /\ Held(e, q, pq) /\ ~Held(e, q', pq'))
            => \/ (lastOp' = "pop" /\ sendOk' = "True" /\ next = e)
               \/ lastOp' = "PersistentQueue.recycle"
               \/ lastOp' = "main"]_vars

\* C5: under fairness, every event accepted into the in-memory queue is
\* eventually passed to a try_send that succeeds (as long as the producer has
\* events left to generate).
C5_AtLeastOnce ==
    \A e \in Events : (e \in accepted) ~> (e \in sent \/ nextId > MaxEvents)

\* C6: no push to the persistent queue fails on a key collision, and the keys
\* of the rows are strictly increasing in insertion order, also when pushes
\* are made at the same clock reading.
C6_KeysStrictlyIncreasing ==
    /\ lastOp = "PersistentQueue.push" => err = "none"
    /\ \A i, j \in DOMAIN pq : i < j => pq[i].timestamp < pq[j].timestamp

MinKeyRow(rows) ==
    CHOOSE r \in Range(rows) : \A r2 \in Range(rows) : r.timestamp <= r2.timestamp

\* C7: the persistent queue is FIFO by key: peek returns the payload of the
\* row with the least key and leaves the table as it is; pop returns that
\* payload and deletes exactly that row, so the size goes down by one.
C7_DurableFifo ==
    [][/\ (lastOp' = "PersistentQueue.peek" /\ pq # <<>>)
           => (ret' = MinKeyRow(pq).log /\ pq' = pq)
       /\ (lastOp' = "PersistentQueue.pop" /\ pq # <<>>)
           => /\ ret' = MinKeyRow(pq).log
              /\ Range(pq') = Range(pq) \ {MinKeyRow(pq)}
              /\ PersistentQueue_size(pq') = PersistentQueue_size(pq) - 1]_vars

\* x then y were pushed, and a pop has returned x and left y alone
C7_Witness ==
    /\ lastOp = "PersistentQueue.pop"
    /\ PersistentQueue_size(pq) = 1
    /\ pq[1].log = 2
    /\ ret = 1

\* the values get_weighted returned, oldest first
Draws == SelectSeq(ticks, LAMBDA k : k.drew)

CountOf(s, from, to, b) == Cardinality({i \in from..to : s[i].buffer = b})

C9_EmptyDurableSkipsDraw ==
    [][/\ (pc = "select" /\ pc' # "select" /\ PersistentQueue_size(pq) = 0)
           => (buffer' = "q" /\ rr' = rr)
       /\ (pc \in {"send", "recycle"}) => (rr' = rr /\ buffer' = buffer)]_vars

\* a tick has selected with the persistent queue empty
C9_Witness ==
    /\ pc = "send"
    /\ PersistentQueue_size(pq) = 0
    /\ buffer = "q"
    /\ ~ticks[Len(ticks)].drew

\* C10: is_time_up answers true exactly when the whole time elapsed since
\* lastSent is at least 1000/MAX_EPS milliseconds.
C10_GateFullElapsed ==
    lastOp = "is_time_up"
        => (timeUp <=> (clock - lastSent) * MAX_EPS >= 1000000)

\* C11: every dispatch sets lastSent to the current time: when the outcome of
\* a send has been handled, lastSent is no earlier than the reading at which
\* the gate let that send through (the base of the spacing of two sends).
C11_LastSentUpdated ==
    [][(pc = "send" /\ pc' # "send") => lastSent' >= clock]_vars

IsSuffix(s, t) == \E k \in 0..Len(t) : s = SubSeq(t, k + 1, Len(t))

\* the storage footprint, in rows
Footprint(rows) == Len(rows)

\* C12: recycle called with the footprint over the size cap ends without an
\* error, with the footprint at most the cap and with the newest rows left
\* (what is left is a suffix of the rows in key order).
C12_SizePhase ==
    [][(lastOp' = "PersistentQueue.recycle" /\ Footprint(pq) > RecycleMaxRows)
         => /\ err' = "none"
            /\ Footprint(pq') <= RecycleMaxRows
            /\ IsSuffix(pq', pq)]_vars

\* the number of leading rows older than maxAge at time now
OldPrefix(rows, now, maxAge) ==
    Cardinality({i \in DOMAIN rows :
                    \A j \in 1..i : now - rows[j].timestamp > maxAge})

\* C13: recycle called with the footprint within the size cap ends without
\* an error and removes exactly the leading rows older than maxAge: it stops
\* at the first row within the age bound.
C13_AgePhase ==
    [][(lastOp' = "PersistentQueue.recycle" /\ Footprint(pq) <= RecycleMaxRows)
         => /\ err' = "none"
            /\ pq' = SubSeq(pq, OldPrefix(pq, clock', RecycleMaxAge) + 1, Len(pq))]_vars

\* C14: recycle on an empty persistent queue raises nothing and leaves it
\* empty, so a tick that sent from the in-memory queue with the persistent
\* queue empty ends normally and the loop goes on.
C14_RecycleToleratesEmpty ==
    (lastOp = "PersistentQueue.recycle" /\ pq = <<>>)
        => (err = "none" /\ pc = "admit")

\* C15: peek and pop on an empty queue end with the EmptyBuffer outcome, not
\* with an exception of the list or of the missing row, and leave the queue
\* empty.
C15_EmptyIsOrdinary ==
    [][((lastOp' \in {"InMemoryQueue.peek", "InMemoryQueue.pop"} /\ q = <<>>)
          => (err' = "EmptyBuffer" /\ q' = <<>>))
       /\ ((lastOp' \in {"PersistentQueue.peek", "PersistentQueue.pop"} /\ pq = <<>>)
          => (err' = "EmptyBuffer" /\ pq' = <<>>))]_vars

\* C16: a push on a full in-memory queue leaves the list as it is and adds
\* one to the drop count; a push on a queue with room appends at the tail and
\* leaves the drop count as it is.
C16_PushCountsDrops ==
    [][lastOp' = "InMemoryQueue.push"
         => IF InMemoryQueue_size(q) = BUFFER_SIZE
                THEN /\ q' = q
                     /\ InMemoryQueue_dropped(q') = InMemoryQueue_dropped(q) + 1
                ELSE /\ q' = Append(q, log')
                     /\ InMemoryQueue_dropped(q') = InMemoryQueue_dropped(q)]_vars

\* C17: a tick whose gate is not ready changes nothing but the in-memory
\* queue, by the admission push: the gate sends main back to the admission
\* with both queues, the round robin, lastSent and the send history as they
\* were, and the admission itself touches the in-memory queue only.
C17_GatedTickOnlyAdmits ==
    [][/\ (pc = "gate" /\ ~timeUp')
           => /\ pc' = "admit"
              /\ UNCHANGED <<q, pq, rr, lastSent, sent, sendOk, ticks, buffer, next>>
       /\ (pc = "admit")
           => /\ (q' = q \/ q' = Append(q, log'))
              /\ UNCHANGED <<pq, rr, lastSent, sent, sendOk, ticks, buffer, next>>]_vars

\* a tick has been gated: the event is admitted and main is back at the admission
C17_Witness ==
    /\ pc = "admit"
    /\ lastOp = "is_time_up"
    /\ ~timeUp
    /\ log \in Range(q)

\* C18: the persistent queue grows only in the handling of a send that
\* failed, by one row that holds the payload passed to that send.
C18_SpillOnlyOnFailure ==
    [][(PersistentQueue_size(pq') > PersistentQueue_size(pq)
          \/ Payloads(pq') \ Payloads(pq) # {})
         => /\ pc = "send"
            /\ sendOk' = "False"
            /\ PersistentQueue_size(pq') = PersistentQueue_size(pq) + 1
            /\ SubSeq(pq', 1, Len(pq)) = pq
            /\ pq'[Len(pq')].log = next]_vars

\* a failed send of the older of two queued events has been spilled
C18_Witness ==
    /\ pc = "recycle"
    /\ sendOk = "False"
    /\ pq # <<>>
    /\ pq[Len(pq)].log = next
    /\ log # next

\* C19: the source the selection chooses holds an event when it is peeked,
\* and the loop never peeks or pops an empty queue.
C19_SourceNonEmpty ==
    /\ lastOp \in {"peek", "pop"} => err = "none"
    /\ (pc = "send" /\ buffer = "q") => q # <<>>
    /\ (pc = "send" /\ buffer = "pq") => pq # <<>>

\* the round robin chose the persistent queue and its head was peeked
C19_Witness ==
    /\ pc = "send"
    /\ buffer = "pq"
    /\ ticks[Len(ticks)].drew
    /\ next = pq[1].log

====
